---- MODULE Spec2Model ----
(***************************************************************************)
(* A model of the call-graph recorder of src/src/visitor.rs:               *)
(* RecordVisitor, its AST visitor callbacks, post_process and dump.        *)
(*                                                                         *)
(* The compilation unit is the input.  Its syntax constructs carry the     *)
(* NodeIds 1..MaxId, numbered in the order the walk meets them (NodeIds    *)
(* are opaque, so this numbering loses no behaviour).  What each id is     *)
(* (free function, body-less trait method, default trait method, impl      *)
(* method), whether it lies in generated code, how the definitions nest    *)
(* and which references the bodies hold is chosen as the walk proceeds.    *)
(* The ids that the save-analysis API answers for a reference (ref_id,     *)
(* decl_id) or for an impl method (fd.declaration) are inputs too: the     *)
(* recorder tests them for locality only, so any id can be answered.       *)
(***************************************************************************)
EXTENDS Integers, Sequences, FiniteSets

\* ------------------------------------------------------------- bounds
\* Number of syntax constructs (definitions and declarations) of the unit.
MaxId == 2
\* Number of references (paths and method call expressions) the walk meets.
MaxCalls == 2

\* ------------------------------------------------------------- values
\* Option::None for cur_fn (NodeIds start at 1).
None == 0
\* ast::LOCAL_CRATE
LOCAL_CRATE == 0
ExternCrate == LOCAL_CRATE + 1

Ids == 1..MaxId
\* Node numbers of definitions in the other crate; they are numbers of that
\* crate's own AST and may coincide with local NodeIds.
ExternNodes == {1}

LocalDefId(n) == [krate |-> LOCAL_CRATE, node |-> n]
LocalDefIds == {LocalDefId(n) : n \in Ids}
ExternDefIds == {[krate |-> ExternCrate, node |-> n] : n \in ExternNodes}
DefIds == LocalDefIds \cup ExternDefIds
\* Option<DefId>: the empty set is None.
OptDefIds == {{}} \cup {{d} : d \in DefIds}

\* fd.qualname, as the save-analysis API gives it for a NodeId.
QualName(id) == <<"qualname", id>>

VARIABLES
    next_id,        \* input position: the next construct the walk meets
    skipped,        \* input: the constructs met in generated code
    path,           \* input position: the definitions whose body is being walked
    saved,          \* prev_fn of each active push_walk_pop, outermost first
    cur_fn,
    static_calls,
    dynamic_calls,
    functions,
    method_decls,
    method_impls,
    overrides,      \* input: (decl, impl) for each visited impl method whose
                    \* fd.declaration is a local declaration
    warnings,       \* number of WARNING lines printed
    ncalls,         \* number of call references observed
    obs_static,     \* (cur_fn, target) of observed concrete local references
    obs_dispatch,   \* (cur_fn, decl) of observed declaration-only local references
    obs_extern,     \* cur_fn of observed references whose target is external
    obs_shadowed,   \* whether a method call that carries a concrete target
                    \* and a local declaration was observed inside a body
    defaults,       \* input: the visited trait methods with a default body
    ngen,           \* number of references met in generated code
    phase           \* "walk", "done" (walked), "final" (post-processed), "panic"

vars == <<next_id, skipped, path, saved, cur_fn, static_calls, dynamic_calls,
          functions, method_decls, method_impls, overrides, warnings, ncalls,
          obs_static, obs_dispatch, obs_extern, obs_shadowed, defaults, ngen,
          phase>>

\* ------------------------------------------------------------ helpers
Elems(s) == {s[i] : i \in 1..Len(s)}

\* The definition whose body encloses the walk's position.
Innermost(p) == IF Len(p) = 0 THEN None ELSE p[Len(p)]

Callees(calls) == {e[2] : e \in calls}

\* Option::unwrap of a Some.
Unwrap(opt) == CHOOSE x \in opt : TRUE

is_local(id) == id.krate = LOCAL_CRATE

\* HashMap::insert
MapInsert(m, k, v) == [x \in DOMAIN m \cup {k} |-> IF x = k THEN v ELSE m[x]]

\* ---------------------------------------------------------------- Init
Init ==
    /\ next_id = 1
    /\ skipped = {}
    /\ path = <<>>
    /\ saved = <<>>
    /\ cur_fn = None
    /\ static_calls = {}
    /\ dynamic_calls = {}
    /\ functions = <<>>
    /\ method_decls = <<>>
    /\ method_impls = <<>>
    /\ overrides = {}
    /\ warnings = 0
    /\ ncalls = 0
    /\ obs_static = {}
    /\ obs_dispatch = {}
    /\ obs_extern = {}
    /\ obs_shadowed = FALSE
    /\ defaults = {}
    /\ ngen = 0
    /\ phase = "walk"

\* ------------------------------------------------------ the recorder
\* Mutant: the skip_generated_code! check is left out.
skip_generated_code_never(generated) == FALSE

\* skip_generated_code!: whether the callback returns at once, for a node
\* whose span save::generated_code finds generated or not.
skip_generated_code(generated) == generated

\* Mutant: the ensure_cur_fn! check is left out.
ensure_cur_fn_never_fails(cf) == FALSE

\* ensure_cur_fn!: the callback prints a WARNING and returns.
ensure_cur_fn_fails(cf) == cf = None

\* Mutant: the restore is left out, cur_fn stays the inner definition.
push_walk_pop_keeps(sv) == cur_fn

\* Mutant: the context is cleared instead of restored.
push_walk_pop_clears(sv) == None

\* push_walk_pop!, after $walk: self.cur_fn = prev_fn.
push_walk_pop_restore(sv) == sv[Len(sv)]

\* Mutant: def is recorded only when decl has no entry yet.
append_method_impl_if_absent(mi, decl, def) ==
    IF decl \in DOMAIN mi THEN mi ELSE MapInsert(mi, decl, <<def>>)

\* RecordVisitor::append_method_impl
append_method_impl(mi, decl, def) ==
    LET m == IF decl \in DOMAIN mi THEN mi ELSE MapInsert(mi, decl, <<>>)
    IN  [m EXCEPT ![decl] = Append(m[decl], def)]

\* visit_trait_item, a method declaration without body:
\* self.method_impls.insert(fd.id, vec![])
declare_method_impls(mi, id) == MapInsert(mi, id, <<>>)

\* Mutant: the WARNING of visit_path is left out.
path_fn_never_warns(cf, ref_id) == FALSE

\* visit_path, FunctionCallData: whether the WARNING is printed.
path_fn_warns(cf, ref_id) == is_local(ref_id) /\ ensure_cur_fn_fails(cf)

\* Mutant: the is_local test of visit_path is left out.
path_fn_static_any_crate(sc, cf, ref_id) ==
    IF ~(cf = None) THEN sc \cup {<<cf, ref_id.node>>} ELSE sc

\* visit_path, FunctionCallData: static_calls afterwards.
path_fn_static(sc, cf, ref_id) ==
    IF is_local(ref_id) /\ ~ensure_cur_fn_fails(cf)
    THEN sc \cup {<<cf, ref_id.node>>}
    ELSE sc

\* Mutant: decl_id is looked at before ref_id.
record_method_call_decl_first(sc, dc, cf, ref_id, decl_id) ==
    IF cf = None
    THEN [static_calls |-> sc, dynamic_calls |-> dc, warned |-> TRUE]
    ELSE IF decl_id # {}
    THEN LET d == Unwrap(decl_id)
         IN  [static_calls |-> sc,
              dynamic_calls |-> IF is_local(d) THEN dc \cup {<<cf, d.node>>} ELSE dc,
              warned |-> FALSE]
    ELSE IF ref_id # {}
    THEN LET r == Unwrap(ref_id)
         IN  [static_calls |-> IF is_local(r) THEN sc \cup {<<cf, r.node>>} ELSE sc,
              dynamic_calls |-> dc, warned |-> FALSE]
    ELSE [static_calls |-> sc, dynamic_calls |-> dc, warned |-> FALSE]

\* Mutant: a method call with a concrete target is recorded as a dynamic call.
record_method_call_all_dynamic(sc, dc, cf, ref_id, decl_id) ==
    IF cf = None
    THEN [static_calls |-> sc, dynamic_calls |-> dc, warned |-> TRUE]
    ELSE IF ref_id # {}
    THEN LET r == Unwrap(ref_id)
         IN  [static_calls |-> sc,
              dynamic_calls |-> IF is_local(r) THEN dc \cup {<<cf, r.node>>} ELSE dc,
              warned |-> FALSE]
    ELSE IF decl_id # {}
    THEN LET d == Unwrap(decl_id)
         IN  [static_calls |-> sc,
              dynamic_calls |-> IF is_local(d) THEN dc \cup {<<cf, d.node>>} ELSE dc,
              warned |-> FALSE]
    ELSE [static_calls |-> sc, dynamic_calls |-> dc, warned |-> FALSE]

\* RecordVisitor::record_method_call: the edge sets afterwards, and whether
\* the WARNING was printed.  ref_id and decl_id are Options (sets of at most
\* one DefId).
record_method_call(sc, dc, cf, ref_id, decl_id) ==
    IF ensure_cur_fn_fails(cf)
    THEN [static_calls |-> sc, dynamic_calls |-> dc, warned |-> TRUE]
    ELSE IF ref_id # {}
    THEN LET r == Unwrap(ref_id)
         IN  [static_calls |-> IF is_local(r) THEN sc \cup {<<cf, r.node>>} ELSE sc,
              dynamic_calls |-> dc, warned |-> FALSE]
    ELSE IF decl_id # {}
    THEN LET d == Unwrap(decl_id)
         IN  [static_calls |-> sc,
              dynamic_calls |-> IF is_local(d) THEN dc \cup {<<cf, d.node>>} ELSE dc,
              warned |-> FALSE]
    ELSE [static_calls |-> sc, dynamic_calls |-> dc, warned |-> FALSE]

\* post_process: whether self.method_impls[to] finds every target.
post_process_ok(dc, mi) == \A e \in dc : e[2] \in DOMAIN mi

\* Mutant: only the first implementing method of each declaration is taken.
processed_calls_first_impl(dc, mi) ==
    {<<e[1], mi[e[2]][1]>> : e \in {x \in dc : Len(mi[x[2]]) > 0}}

\* post_process: processed_calls.
processed_calls(dc, mi) ==
    UNION {{<<e[1], to>> : to \in Elems(mi[e[2]])} : e \in dc}

\* Mutant: the expanded edges are added to static_calls.
post_process_into_static(sc, dc, mi) ==
    [static_calls |-> sc \cup processed_calls(dc, mi), dynamic_calls |-> {}]

\* post_process, when every lookup succeeds: the edge sets afterwards
\* (self.dynamic_calls = processed_calls; static_calls is not touched).
post_process(sc, dc, mi) ==
    [static_calls |-> sc, dynamic_calls |-> processed_calls(dc, mi)]

\* ---------------------------------------------------------- the walk
\* The walk meets construct id next.
Meets(id) ==
    /\ phase = "walk"
    /\ id = next_id
    /\ id <= MaxId
    /\ next_id' = id + 1

\* push_walk_pop!, before $walk.
Push(id) ==
    /\ saved' = Append(saved, cur_fn)
    /\ cur_fn' = id
    /\ path' = Append(path, id)

calls_unchanged == UNCHANGED <<static_calls, dynamic_calls, warnings, ncalls,
                               obs_static, obs_dispatch, obs_extern,
                               obs_shadowed, ngen>>

\* visit_item, visit_trait_item, visit_impl_item on generated code:
\* skip_generated_code! returns, nothing below the node is walked.
VisitGenerated(id) ==
    /\ Meets(id)
    /\ skipped' = skipped \cup {id}
    /\ UNCHANGED <<path, saved, cur_fn, functions, method_decls, method_impls,
                   overrides, defaults, phase>>
    /\ calls_unchanged

\* visit_item on an ItemFn, up to the walk of its body.
VisitFn(id) ==
    /\ Meets(id)
    /\ functions' = MapInsert(functions, id, QualName(id))
    /\ Push(id)
    /\ UNCHANGED <<skipped, method_decls, method_impls, overrides, defaults,
                   phase>>
    /\ calls_unchanged

\* visit_trait_item on MethodTraitItem(_, None).
VisitMethodDecl(id) ==
    /\ Meets(id)
    /\ method_decls' = MapInsert(method_decls, id, QualName(id))
    /\ method_impls' = declare_method_impls(method_impls, id)
    /\ UNCHANGED <<skipped, path, saved, cur_fn, functions, overrides,
                   defaults, phase>>
    /\ calls_unchanged

\* visit_trait_item on MethodTraitItem(_, Some(_)), up to the walk of its body.
VisitDefaultMethod(id) ==
    /\ Meets(id)
    /\ method_decls' = MapInsert(method_decls, id, QualName(id))
    /\ functions' = MapInsert(functions, id, QualName(id))
    /\ method_impls' = append_method_impl(method_impls, id, id)
    /\ defaults' = defaults \cup {id}
    /\ Push(id)
    /\ UNCHANGED <<skipped, overrides, phase>>
    /\ calls_unchanged

\* visit_impl_item on a MethodImplItem, up to the walk of its body.
\* decl is fd.declaration, an Option.
VisitImplMethod(id, decl) ==
    /\ Meets(id)
    /\ functions' = MapInsert(functions, id, QualName(id))
    /\ method_impls' =
          IF decl # {} /\ is_local(Unwrap(decl))
          THEN append_method_impl(method_impls, Unwrap(decl).node, id)
          ELSE method_impls
    /\ overrides' =
          IF decl # {} /\ is_local(Unwrap(decl))
          THEN overrides \cup {<<Unwrap(decl).node, id>>}
          ELSE overrides
    /\ Push(id)
    /\ UNCHANGED <<skipped, method_decls, defaults, phase>>
    /\ calls_unchanged

\* push_walk_pop!, after $walk: the walk of the innermost body returns.
WalkReturns ==
    /\ phase = "walk"
    /\ Len(path) > 0
    /\ cur_fn' = push_walk_pop_restore(saved)
    /\ saved' = SubSeq(saved, 1, Len(saved) - 1)
    /\ path' = SubSeq(path, 1, Len(path) - 1)
    /\ UNCHANGED <<next_id, skipped, functions, method_decls, method_impls,
                   overrides, defaults, phase>>
    /\ calls_unchanged

\* What a call reference resolves to: the concrete target when the data
\* carries one, else the declaration.
ResolvedTarget(ref_id, decl_id) == IF ref_id # {} THEN ref_id ELSE decl_id

\* A call reference is observed at the walk's position; ref_id and decl_id
\* are Options.
Observes(ref_id, decl_id) ==
    /\ phase = "walk"
    /\ ncalls + ngen < MaxCalls
    /\ ncalls' = ncalls + 1
    /\ obs_static' =
          IF ref_id # {} /\ is_local(Unwrap(ref_id)) /\ cur_fn # None
          THEN obs_static \cup {<<cur_fn, Unwrap(ref_id).node>>}
          ELSE obs_static
    /\ obs_dispatch' =
          IF ref_id = {} /\ decl_id # {} /\ is_local(Unwrap(decl_id))
             /\ cur_fn # None
          THEN obs_dispatch \cup {<<cur_fn, Unwrap(decl_id).node>>}
          ELSE obs_dispatch
    /\ obs_extern' =
          IF cur_fn # None /\ ResolvedTarget(ref_id, decl_id) # {}
             /\ ~is_local(Unwrap(ResolvedTarget(ref_id, decl_id)))
          THEN obs_extern \cup {cur_fn}
          ELSE obs_extern
    /\ obs_shadowed' =
          IF cur_fn # None /\ ref_id # {} /\ decl_id # {}
             /\ is_local(Unwrap(decl_id))
          THEN TRUE
          ELSE obs_shadowed
    /\ UNCHANGED <<next_id, skipped, path, saved, cur_fn, functions,
                   method_decls, method_impls, overrides, defaults, ngen,
                   phase>>

\* visit_path on a path whose data is FunctionCallData.
VisitPathFn(ref_id) ==
    /\ Observes({ref_id}, {})
    /\ static_calls' = path_fn_static(static_calls, cur_fn, ref_id)
    /\ warnings' = warnings + (IF path_fn_warns(cur_fn, ref_id) THEN 1 ELSE 0)
    /\ UNCHANGED dynamic_calls

RecordsMethodCall(ref_id, decl_id) ==
    LET r == record_method_call(static_calls, dynamic_calls, cur_fn, ref_id, decl_id)
    IN  /\ static_calls' = r.static_calls
        /\ dynamic_calls' = r.dynamic_calls
        /\ warnings' = warnings + (IF r.warned THEN 1 ELSE 0)

\* visit_path on a path whose data is MethodCallData.
VisitPathMethod(ref_id, decl_id) ==
    /\ Observes(ref_id, decl_id)
    /\ RecordsMethodCall(ref_id, decl_id)

\* visit_expr on an ExprMethodCall, after walk_expr.
VisitExprMethodCall(ref_id, decl_id) ==
    /\ Observes(ref_id, decl_id)
    /\ RecordsMethodCall(ref_id, decl_id)

\* visit_path or visit_expr on a node of generated code; ref_id and decl_id
\* are what the save-analysis API would answer for it.
VisitGeneratedRef(ref_id, decl_id) ==
    /\ phase = "walk"
    /\ ncalls + ngen < MaxCalls
    /\ ngen' = ngen + 1
    /\ LET r == IF skip_generated_code(TRUE)
                THEN [static_calls |-> static_calls,
                      dynamic_calls |-> dynamic_calls, warned |-> FALSE]
                ELSE record_method_call(static_calls, dynamic_calls, cur_fn,
                                        ref_id, decl_id)
       IN  /\ static_calls' = r.static_calls
           /\ dynamic_calls' = r.dynamic_calls
           /\ warnings' = warnings + (IF r.warned THEN 1 ELSE 0)
    /\ UNCHANGED <<next_id, skipped, path, saved, cur_fn, functions,
                   method_decls, method_impls, overrides, defaults, ncalls,
                   obs_static, obs_dispatch, obs_extern, obs_shadowed, phase>>

\* The walk of the whole unit returns to the driver.
WalkDone ==
    /\ phase = "walk"
    /\ next_id > MaxId
    /\ Len(path) = 0
    /\ phase' = "done"
    /\ UNCHANGED <<next_id, skipped, path, saved, cur_fn, functions,
                   method_decls, method_impls, overrides, defaults>>
    /\ calls_unchanged

\* RecordVisitor::post_process, on the walk's output or again on its own.
\* Indexing method_impls with a missing key panics before
\* self.dynamic_calls is assigned.
PostProcess ==
    /\ phase \in {"done", "final"}
    /\ IF post_process_ok(dynamic_calls, method_impls)
       THEN LET r == post_process(static_calls, dynamic_calls, method_impls)
            IN  /\ static_calls' = r.static_calls
                /\ dynamic_calls' = r.dynamic_calls
                /\ phase' = "final"
       ELSE /\ phase' = "panic"
            /\ UNCHANGED <<static_calls, dynamic_calls>>
    /\ UNCHANGED <<next_id, skipped, path, saved, cur_fn,
                   functions, method_decls, method_impls, overrides,
                   warnings, ncalls, obs_static, obs_dispatch, obs_extern,
                   obs_shadowed, defaults, ngen>>

\* dump: whether every self.functions[..] lookup finds its key.
dump_ok(sc, dc, fns) ==
    \A e \in sc \cup dc : e[1] \in DOMAIN fns /\ e[2] \in DOMAIN fns

\* RecordVisitor::dump, called after post_process: prints, or panics.
Dump ==
    /\ phase = "final"
    /\ phase' = IF dump_ok(static_calls, dynamic_calls, functions)
                THEN phase ELSE "panic"
    /\ UNCHANGED <<next_id, skipped, path, saved, cur_fn, static_calls,
                   dynamic_calls, functions, method_decls, method_impls,
                   overrides, warnings, ncalls, obs_static, obs_dispatch,
                   obs_extern, obs_shadowed, defaults, ngen>>

Next ==
    \/ \E id \in Ids : VisitGenerated(id)
    \/ \E id \in Ids : VisitFn(id)
    \/ \E id \in Ids : VisitMethodDecl(id)
    \/ \E id \in Ids : VisitDefaultMethod(id)
    \/ \E id \in Ids : \E decl \in OptDefIds : VisitImplMethod(id, decl)
    \/ WalkReturns
    \/ \E ref_id \in DefIds : VisitPathFn(ref_id)
    \/ \E ref_id \in OptDefIds : \E decl_id \in OptDefIds :
          VisitPathMethod(ref_id, decl_id)
    \/ \E ref_id \in OptDefIds : \E decl_id \in OptDefIds :
          VisitExprMethodCall(ref_id, decl_id)
    \/ \E ref_id \in OptDefIds : \E decl_id \in OptDefIds :
          VisitGeneratedRef(ref_id, decl_id)
    \/ WalkDone
    \/ PostProcess
    \/ Dump

Spec == Init /\ [][Next]_vars

\* ------------------------------------------------------------- claims
edges_unchanged == UNCHANGED <<static_calls, dynamic_calls>>

\* The expansion of the unresolved edges dc through the link table mi.
Expansion(dc, mi) ==
    {p \in Ids \X Ids :
        \E e \in dc : /\ e[1] = p[1]
                      /\ e[2] \in DOMAIN mi
                      /\ p[2] \in Elems(mi[e[2]])}

\* C1: running post_process again on a post-processed model completes
\* without failure and leaves static_calls and dynamic_calls as the first
\* run left them.
C1_PostProcessIdempotent ==
    [][(phase = "final" /\ PostProcess) =>
          (phase' = "final" /\ edges_unchanged)]_vars

\* C2: once the unit is walked, the Implementation Link set of every local
\* declaration D holds every visited method implementation that overrides
\* D, whatever the order in which D and its implementations were visited.
C2_ImplsLinkedInAnyOrder ==
    phase \in {"done", "final"} =>
        \A o \in overrides :
            o[1] \in DOMAIN method_impls /\ o[2] \in Elems(method_impls[o[1]])

\* C3: in the finalized model both endpoints of every edge of static_calls
\* and dynamic_calls are keys of functions.
C3_EdgeEndpointsAreCallables ==
    phase = "final" =>
        \A e \in static_calls \cup dynamic_calls :
            e[1] \in DOMAIN functions /\ e[2] \in DOMAIN functions

\* C4: when the walk is over and post_process is about to run, the target
\* of every unresolved edge of dynamic_calls is a key of method_impls.
C4_UnresolvedTargetsAreKeys ==
    phase = "done" => \A e \in dynamic_calls : e[2] \in DOMAIN method_impls

\* C5: every completed run of post_process replaces dynamic_calls with
\* exactly the pairs (caller, impl) such that (caller, decl) was in
\* dynamic_calls and impl is in method_impls[decl]; a declaration with no
\* implementer contributes no pair.
C5_PostProcessExpands ==
    [][phase' = "final" =>
          dynamic_calls' = Expansion(dynamic_calls, method_impls)]_vars

\* C5, witness: a declaration with two implementers was called dynamically
\* from one caller and post_process left exactly the two edges to them.
C5_Witness ==
    /\ phase = "final"
    /\ \E d \in DOMAIN method_impls : \E c \in Ids :
          /\ Len(method_impls[d]) = 2
          /\ method_impls[d][1] # method_impls[d][2]
          /\ obs_dispatch = {<<c, d>>}
          /\ dynamic_calls = {<<c, method_impls[d][1]>>, <<c, method_impls[d][2]>>}

\* C6: cur_fn is always the definition whose body is being walked, the
\* innermost one when bodies nest, and the outer one again once the walk of
\* the inner body returns; an edge recorded during the walk has that
\* definition as its caller.
C6_ContextStacking ==
    [][/\ cur_fn' = Innermost(path')
       /\ phase = "walk" =>
             \A e \in (static_calls' \ static_calls)
                         \cup (dynamic_calls' \ dynamic_calls) :
                 e[1] = Innermost(path)]_vars

\* C6, witness: B was defined inside A's body, a call in B's body was
\* recorded with caller B, the walk of B's body returned and a call in A's
\* body is recorded with caller A.
C6_Witness ==
    /\ phase = "walk"
    /\ Len(path) = 1
    /\ cur_fn = path[1]
    /\ \E b \in DOMAIN functions :
          /\ b > path[1]
          /\ \E e \in static_calls \cup dynamic_calls : e[1] = b
          /\ \E e \in static_calls \cup dynamic_calls : e[1] = path[1]

\* C7: a call reference observed while cur_fn is empty adds no edge and
\* changes neither the maps nor cur_fn, and the walk goes on.
C7_NoContextCallDropped ==
    [][(cur_fn = None /\ ncalls' = ncalls + 1) =>
          /\ UNCHANGED <<static_calls, dynamic_calls, functions, method_decls,
                         method_impls, cur_fn>>
          /\ phase' = "walk"]_vars

\* C7, witness: callables are registered, calls were observed outside of
\* every body and none of them became an edge.
C7_Witness ==
    /\ DOMAIN functions # {}
    /\ warnings = MaxCalls
    /\ static_calls = {}
    /\ dynamic_calls = {}

\* C8, as claimed: every call reference observed while cur_fn is empty
\* prints a WARNING, and a WARNING is printed only for such a reference.
C8_EveryNoContextCallWarns ==
    [][/\ (cur_fn = None /\ ncalls' = ncalls + 1) => warnings' = warnings + 1
       /\ warnings' # warnings => (cur_fn = None /\ ncalls' = ncalls + 1)]_vars

\* C8, amended: while cur_fn is empty every method call reference prints a
\* WARNING, a function path prints one exactly when its target is local,
\* and a WARNING is printed only for a reference observed while cur_fn is
\* empty.
C8_NoContextWarnings ==
    [][/\ \A r \in OptDefIds : \A d \in OptDefIds :
             (cur_fn = None /\ (VisitPathMethod(r, d) \/ VisitExprMethodCall(r, d)))
                => warnings' = warnings + 1
       /\ \A r \in DefIds :
             (cur_fn = None /\ VisitPathFn(r))
                => warnings' = warnings + (IF is_local(r) THEN 1 ELSE 0)
       /\ warnings' # warnings =>
             (cur_fn = None /\ ncalls' = ncalls + 1 /\ warnings' = warnings + 1)]_vars

\* C8, witness: no definition was entered yet, so every reference so far
\* was observed with cur_fn empty; one printed a WARNING and one did not.
C8_Witness ==
    /\ DOMAIN functions = {}
    /\ ncalls = 2
    /\ warnings = 1

\* C9: every edge of static_calls comes from an observed reference whose
\* concrete target is local, every unresolved edge from one whose
\* declaration is local, and every expanded edge leads to a callable
\* defined in the unit: a reference to an external target records nothing.
C9_LocalityFilter ==
    /\ static_calls \subseteq obs_static
    /\ phase \in {"walk", "done"} => dynamic_calls \subseteq obs_dispatch
    /\ phase = "final" => Callees(dynamic_calls) \subseteq DOMAIN functions

\* C9, witness: references to external targets were observed inside a body
\* and the finalized model has no edge.
C9_Witness ==
    /\ phase = "final"
    /\ obs_extern # {}
    /\ ncalls = MaxCalls
    /\ warnings = 0
    /\ obs_static = {}
    /\ obs_dispatch = {}
    /\ static_calls = {}
    /\ dynamic_calls = {}

\* C10: (c, t) is in static_calls if and only if a reference with the
\* concrete local target t was observed while cur_fn was c.
C10_StaticEdgesExact == static_calls = obs_static

\* C10, witness: f calls g directly and nothing else is called; the
\* finalized model has the one static edge (f, g) and no dynamic edge.
C10_Witness ==
    /\ phase = "final"
    /\ DOMAIN functions = {1, 2}
    /\ DOMAIN method_decls = {}
    /\ ncalls = 1
    /\ static_calls = {<<1, 2>>}
    /\ dynamic_calls = {}

\* C11: every visited trait method with a default body is a key of
\* method_decls and of functions with the same qualified name, and its
\* method_impls list holds its own id, whatever else was visited before or
\* after it.
C11_DefaultMethodReflexive ==
    \A d \in defaults :
        /\ d \in DOMAIN method_decls
        /\ d \in DOMAIN functions
        /\ method_decls[d] = functions[d]
        /\ d \in DOMAIN method_impls
        /\ d \in Elems(method_impls[d])

\* C11, witness: the walk is over; an implementation that overrides the
\* default method was visited before it, and the list holds both.
C11_Witness ==
    /\ phase = "done"
    /\ \E d \in defaults :
          /\ Len(method_impls[d]) = 2
          /\ method_impls[d][1] < d
          /\ method_impls[d][2] = d

\* C12: a node of generated code (an item, trait item or impl item, or a
\* path or expression) adds no callable, no method declaration, no
\* implementation link and no edge, and leaves cur_fn as it was.
C12_GeneratedCodeSkipped ==
    [][(skipped' # skipped \/ ngen' # ngen) =>
          UNCHANGED <<functions, method_decls, method_impls, static_calls,
                      dynamic_calls, cur_fn>>]_vars

\* C12, witness: inside a body the walk met an item of generated code and
\* references of generated code, and the model holds the one callable and
\* no edge.
C12_Witness ==
    /\ phase = "walk"
    /\ cur_fn # None
    /\ skipped # {}
    /\ ngen = MaxCalls
    /\ DOMAIN functions = {cur_fn}
    /\ DOMAIN method_impls = {}
    /\ static_calls = {}
    /\ dynamic_calls = {}

\* C13: cur_fn is always empty or a key of functions, so the caller of
\* every recorded edge is a registered callable; and once the walk of the
\* whole unit is over cur_fn is empty again.
C13_CurFnIsRegistered ==
    /\ cur_fn = None \/ cur_fn \in DOMAIN functions
    /\ \A e \in static_calls \cup dynamic_calls : e[1] \in DOMAIN functions
    /\ phase # "walk" => cur_fn = None

\* C13, witness: the walk of a unit with two callables, both callers of a
\* recorded edge, is over and cur_fn is empty.
C13_Witness ==
    /\ phase = "done"
    /\ cur_fn = None
    /\ DOMAIN functions = {1, 2}
    /\ {e[1] : e \in static_calls \cup dynamic_calls} = {1, 2}

\* C14: a step of the driver after the walk (post_process, completed or
\* not, or dump) leaves static_calls, functions, method_decls, method_impls
\* and cur_fn as they were: post_process changes dynamic_calls only.
C14_PostProcessFrame ==
    [][(phase = "done" \/ phase = "final") =>
          UNCHANGED <<static_calls, functions, method_decls, method_impls,
                      cur_fn>>]_vars

\* C14, witness: post_process has replaced the unresolved edges by other
\* edges and the static edges are there.
C14_Witness ==
    /\ phase = "final"
    /\ static_calls # {}
    /\ static_calls = obs_static
    /\ dynamic_calls # {}
    /\ dynamic_calls # obs_dispatch

\* C15: a method call whose data carries a concrete target ref_id, with or
\* without a declaration decl_id beside it, never adds an edge to
\* dynamic_calls; inside a body it adds the static edge (cur_fn, ref_id)
\* when ref_id is local and nothing when ref_id is external (outside of
\* every body it adds nothing).  Read per target r: a step that observes a
\* reference either has this effect on the two edge sets, or it is no
\* method call with target r, whatever declaration d comes with it.
C15_ConcreteTargetWins ==
    [][(ncalls' # ncalls) =>
          \A r \in DefIds :
             \/ /\ dynamic_calls' = dynamic_calls
                /\ static_calls' =
                      IF is_local(r) /\ cur_fn # None
                      THEN static_calls \cup {<<cur_fn, r.node>>}
                      ELSE static_calls
             \/ \A d \in OptDefIds :
                   ~(/\ RecordsMethodCall({r}, d)
                     /\ VisitPathMethod({r}, d) \/ VisitExprMethodCall({r}, d))]_vars

\* C15, witness: the one reference observed is a method call inside a body
\* that carries a local concrete target and a local declaration; it became
\* a static edge and no unresolved edge.
C15_Witness ==
    /\ phase = "walk"
    /\ ncalls = 1
    /\ obs_shadowed
    /\ Cardinality(static_calls) = 1
    /\ dynamic_calls = {}

====
